---- MODULE Spec2Model ----
(***************************************************************************)
(* Model of tools/youtube_to_strudel.py: the audio-analysis pipeline       *)
(* (AudioAnalyzer), the note quantizer, the bar-pattern fold and the code  *)
(* emitter (StrudelGenerator), and the /convert request handler.           *)
(*                                                                         *)
(* Time is counted in ticks of 1/16 s, so the quantizer's resolution of    *)
(* 0.125 s is 2 ticks and rounding to the grid is a real conversion.       *)
(* Floating-point arithmetic is modelled by exact rational arithmetic:     *)
(* a quotient a/b is carried as the pair (a, b) and compared by cross      *)
(* multiplication.  Python's round() is round-half-to-even.                *)
(***************************************************************************)
EXTENDS Integers, Sequences, FiniteSets, TLC

VARIABLES
    pc,            \* position of the invocation in convert()/main()
    url,           \* the request's url ("" when none was given)
    signal,        \* what librosa.load produced: "none" | "empty" | "silent" | "valid"
    duration,      \* analyzer.duration, in ticks
    attrs,         \* the attributes the analyzer object has (hasattr/getattr)
    bpm,           \* analyzer.bpm
    key,           \* analyzer.key
    mode,          \* analyzer.mode
    drum_hits,     \* analyzer.drum_hits: band -> time-ordered hit times (ticks)
    bass_notes,    \* analyzer.bass_notes (quantized)
    melody_notes,  \* analyzer.melody_notes (quantized)
    gen,           \* the StrudelGenerator's own fields [bpm, key, mode]
    locals,        \* locals of the last _generate_drums run [num_bars, counts, patterns]
    code,          \* the sections generate() joined, in order
    response,      \* what the invocation returned to its caller
    notes,         \* quantizer harness: the note list handed to _quantize_notes
    quantized,     \* quantizer harness: _quantize_notes(notes)
    requantized,   \* quantizer harness: _quantize_notes(quantized)
    reqs,          \* concurrent /convert requests: id -> [pc, url, path, loaded, response]
    files,         \* the temp directory: path -> "absent" or the video it holds
    stage_chroma,  \* one stage on its own: the chroma profile analyze_key looks at
    stage_frames,  \* one stage on its own: the strongest pitch of each piptrack frame
    stage_floor,   \* one stage on its own: analyze_melody's magnitude floor
    stage_tempo    \* one stage on its own: the tempo beat_track returned

vars == <<pc, url, signal, duration, attrs, bpm, key, mode, drum_hits, bass_notes,
          melody_notes, gen, locals, code, response, notes, quantized, requantized,
          reqs, files, stage_chroma, stage_frames, stage_floor, stage_tempo>>

pipeVars == <<pc, url, signal, duration, attrs, bpm, key, mode, drum_hits, bass_notes,
              melody_notes, gen, locals, code, response>>
quantVars == <<notes, quantized, requantized>>
concVars == <<reqs, files>>
stageVars == <<stage_chroma, stage_frames, stage_floor, stage_tempo>>

----------------------------------------------------------------------------
(* Arithmetic helpers *)

Min(a, b) == IF a <= b THEN a ELSE b
Max(a, b) == IF a >= b THEN a ELSE b

\* Python's round(n/d) for n >= 0, d > 0: nearest integer, ties to even.
PyRound(n, d) ==
    LET q == n \div d
        r == n % d
    IN  IF 2 * r < d THEN q
        ELSE IF 2 * r > d THEN q + 1
        ELSE IF q % 2 = 0 THEN q ELSE q + 1

\* The quantizer's grid step: resolution = 0.125 s = 2 ticks.
Resolution == 2
TicksPerSecond == 8 * Resolution

\* A bar is 4 * 60 / bpm seconds = BarScaled / bpm ticks.
BarScaled == 4 * 60 * TicksPerSecond
steps_per_bar == 16
\* One step is bar_duration / 16 = StepScaled / bpm ticks.
StepScaled == BarScaled \div steps_per_bar

Bands == {"kick", "snare", "hihat"}

NOTE_NAMES == <<"C", "Db", "D", "Eb", "E", "F", "Gb", "G", "Ab", "A", "Bb", "B">>

\* str.lower() on the twelve names.
Lower(s) ==
    CASE s = "C" -> "c" [] s = "Db" -> "db" [] s = "D" -> "d" [] s = "Eb" -> "eb"
      [] s = "E" -> "e" [] s = "F" -> "f" [] s = "Gb" -> "gb" [] s = "G" -> "g"
      [] s = "Ab" -> "ab" [] s = "A" -> "a" [] s = "Bb" -> "bb" [] s = "B" -> "b"

\* _midi_to_note: f"{NOTE_NAMES[midi % 12].lower()}{midi // 12 - 1}", as <<name, octave>>.
_midi_to_note(midi) == <<Lower(NOTE_NAMES[(midi % 12) + 1]), (midi \div 12) - 1>>

----------------------------------------------------------------------------
(* AudioAnalyzer._quantize_notes *)

\* QuantizeStep remembering the note's raw time instead of its grid time.
QuantizeStep_RawLast(st, note) ==
    LET q_time == PyRound(note.time, Resolution) * Resolution
    IN  IF q_time # st.last_time \/ note.midi # st.last_midi
        THEN [out |-> Append(st.out, [time |-> q_time, midi |-> note.midi,
                                      note |-> _midi_to_note(note.midi)]),
              last_time |-> note.time, last_midi |-> note.midi]
        ELSE st

\* QuantizeStep emitting only when both the grid time and the midi differ.
QuantizeStep_And(st, note) ==
    LET q_time == PyRound(note.time, Resolution) * Resolution
    IN  IF q_time # st.last_time /\ note.midi # st.last_midi
        THEN [out |-> Append(st.out, [time |-> q_time, midi |-> note.midi,
                                      note |-> _midi_to_note(note.midi)]),
              last_time |-> q_time, last_midi |-> note.midi]
        ELSE st

\* QuantizeStep keeping the grid index round(time / resolution) as the time.
QuantizeStep_Index(st, note) ==
    LET q_time == PyRound(note.time, Resolution)
    IN  IF q_time # st.last_time \/ note.midi # st.last_midi
        THEN [out |-> Append(st.out, [time |-> q_time, midi |-> note.midi,
                                      note |-> _midi_to_note(note.midi)]),
              last_time |-> q_time, last_midi |-> note.midi]
        ELSE st

\* One iteration of the loop over notes: st = [out, last_time, last_midi].
QuantizeStep(st, note) ==
    LET q_time == PyRound(note.time, Resolution) * Resolution
    IN  IF q_time # st.last_time \/ note.midi # st.last_midi
        THEN [out |-> Append(st.out, [time |-> q_time, midi |-> note.midi,
                                      note |-> _midi_to_note(note.midi)]),
              last_time |-> q_time, last_midi |-> note.midi]
        ELSE st

RECURSIVE QuantizeLoop(_, _, _)
QuantizeLoop(st, ns, i) ==
    IF i > Len(ns) THEN st
    ELSE QuantizeLoop(QuantizeStep(st, ns[i]), ns, i + 1)

\* `if not notes: return []`, then the loop from last_time = last_midi = -1.
_quantize_notes(ns) ==
    IF ns = <<>> THEN <<>>
    ELSE QuantizeLoop([out |-> <<>>, last_time |-> -1, last_midi |-> -1], ns, 1).out

----------------------------------------------------------------------------
(* StrudelGenerator._generate_drums and its nested functions.              *)
(* bar_duration = 4 * 60.0 / bpm is a quotient, so the functions below     *)
(* take bpm (b > 0) in its place: bar_duration = BarScaled / b ticks and   *)
(* step_duration = StepScaled / b ticks.                                   *)

Slots == 0 .. (steps_per_bar - 1)

\* num_bars = min(4, int(self.analyzer.duration / bar_duration))
NumBars(dur, b) == Min(4, (dur * b) \div BarScaled)

\* HitCounted without the `hit_time < num_bars * bar_duration` test.
HitCounted_Always(hit_time, num_bars, b) == TRUE

\* HitCounted looking at the first bar only.
HitCounted_FirstBar(hit_time, num_bars, b) == num_bars >= 1 /\ hit_time * b < BarScaled

\* `if hit_time < num_bars * bar_duration`
HitCounted(hit_time, num_bars, b) == hit_time * b < num_bars * BarScaled

\* HitStep clamping to the last slot instead of wrapping to slot 0.
HitStep_NoWrap(hit_time, b) ==
    Min(steps_per_bar - 1, PyRound((hit_time * b) % BarScaled, StepScaled))

\* step = int(round((hit_time % bar_duration) / step_duration)) % steps_per_bar
HitStep(hit_time, b) == PyRound((hit_time * b) % BarScaled, StepScaled) % steps_per_bar

\* bar_num = int(hit_time / bar_duration)
BarNum(hit_time, b) == (hit_time * b) \div BarScaled

\* The loop `for hit_time in hits`: hit_counts[step] += 1 for every counted hit.
RECURSIVE HitCountsLoop(_, _, _, _, _)
HitCountsLoop(counts, hits, i, num_bars, b) ==
    IF i > Len(hits) THEN counts
    ELSE IF HitCounted(hits[i], num_bars, b)
         THEN HitCountsLoop([counts EXCEPT ![HitStep(hits[i], b)] = @ + 1],
                            hits, i + 1, num_bars, b)
         ELSE HitCountsLoop(counts, hits, i + 1, num_bars, b)

hit_counts(hits, num_bars, b) ==
    HitCountsLoop([s \in Slots |-> 0], hits, 1, num_bars, b)

\* threshold = max(1, num_bars // 2)
Threshold(num_bars) == Max(1, num_bars \div 2)

\* hits_to_pattern: 'x' where the count reaches the threshold, '~' elsewhere.
hits_to_pattern(hits, num_bars, b) ==
    LET counts == hit_counts(hits, num_bars, b)
    IN  [s \in Slots |-> IF counts[s] >= Threshold(num_bars) THEN "x" ELSE "~"]

\* The token of one beat from its list of subdivision tokens (all 'x').
BeatToken(n) ==
    CASE n = 0 -> "~"
      [] n = 1 -> "x"
      [] n = 2 -> "[x x]"
      [] n = 3 -> "[x x x]"
      [] n = 4 -> "[x x x x]"

\* simplify_pattern leaving out the beats without a hit.
simplify_pattern_DropRests(pattern) ==
    SelectSeq([beat \in 1 .. 4 |->
                  LET subdivs == {j \in 0 .. 3 : pattern[4 * (beat - 1) + j] = "x"}
                  IN  BeatToken(Cardinality(subdivs))],
              LAMBDA tok : tok # "~")

\* simplify_pattern rendering a lone hit off the beat (subdivision 1, 2 or 3)
\* as a bracketed group that shows its place.
simplify_pattern_Placed(pattern) ==
    [beat \in 1 .. 4 |->
        LET subdivs == {j \in 0 .. 3 : pattern[4 * (beat - 1) + j] = "x"}
        IN  IF Cardinality(subdivs) = 1 /\ 0 \notin subdivs
            THEN "[~ x]"
            ELSE BeatToken(Cardinality(subdivs))]

\* simplify_pattern: the four beat tokens (the code joins them with spaces).
simplify_pattern(pattern) ==
    [beat \in 1 .. 4 |->
        LET subdivs == {j \in 0 .. 3 : pattern[4 * (beat - 1) + j] = "x"}
        IN  BeatToken(Cardinality(subdivs))]

\* `'x' in simplify_pattern(p)` on the joined string.
HasX(str) == \E i \in 1 .. Len(str) : str[i] # "~"

\* pattern.count('x')
CountX(pattern) == Cardinality({s \in Slots : pattern[s] = "x"})

KickPart(pattern) ==
    IF HasX(simplify_pattern(pattern))
    THEN <<[band |-> "kick", form |-> "struct", struct |-> simplify_pattern(pattern)]>>
    ELSE <<>>

SnarePart(pattern) ==
    IF HasX(simplify_pattern(pattern))
    THEN <<[band |-> "snare", form |-> "struct", struct |-> simplify_pattern(pattern)]>>
    ELSE <<>>

\* HihatPart without the literal struct branch.
HihatPart_NoStruct(pattern) ==
    IF CountX(pattern) >= 12
    THEN <<[band |-> "hihat", form |-> "c6*8", struct |-> <<>>]>>
    ELSE IF CountX(pattern) >= 8
    THEN <<[band |-> "hihat", form |-> "c6*4", struct |-> <<>>]>>
    ELSE <<>>

\* HihatPart without the shorter shorthand: 8 .. 11 hits are rendered literally.
HihatPart_NoShort(pattern) ==
    IF CountX(pattern) >= 12
    THEN <<[band |-> "hihat", form |-> "c6*8", struct |-> <<>>]>>
    ELSE IF HasX(simplify_pattern(pattern))
    THEN <<[band |-> "hihat", form |-> "struct", struct |-> simplify_pattern(pattern)]>>
    ELSE <<>>

HihatPart(pattern) ==
    IF CountX(pattern) >= 12
    THEN <<[band |-> "hihat", form |-> "c6*8", struct |-> <<>>]>>
    ELSE IF CountX(pattern) >= 8
    THEN <<[band |-> "hihat", form |-> "c6*4", struct |-> <<>>]>>
    ELSE IF HasX(simplify_pattern(pattern))
    THEN <<[band |-> "hihat", form |-> "struct", struct |-> simplify_pattern(pattern)]>>
    ELSE <<>>

\* DrumsStanza without the fallback branch: always a stack, even an empty one.
DrumsStanza_NoFallback(drum_parts) ==
    [kind |-> "drums", fallback |-> FALSE, parts |-> drum_parts]

\* `if drum_parts: stack(...) else: note("c2*4")...`
DrumsStanza(drum_parts) ==
    IF drum_parts # <<>>
    THEN [kind |-> "drums", fallback |-> FALSE, parts |-> drum_parts]
    ELSE [kind |-> "drums", fallback |-> TRUE, parts |-> <<>>]

NoLocals == [num_bars |-> 0,
             counts |-> [bd \in Bands |-> [s \in Slots |-> 0]],
             patterns |-> [bd \in Bands |-> [s \in Slots |-> "~"]]]

\* _generate_drums: 60.0 / self.bpm raises ZeroDivisionError when bpm = 0.
_generate_drums(hits, dur, b) ==
    IF b = 0
    THEN [raised |-> TRUE, section |-> <<>>, locals |-> NoLocals]
    ELSE LET num_bars == NumBars(dur, b)
             pats == [bd \in Bands |-> hits_to_pattern(hits[bd], num_bars, b)]
             drum_parts == KickPart(pats["kick"]) \o SnarePart(pats["snare"])
                           \o HihatPart(pats["hihat"])
         IN  [raised |-> FALSE,
              section |-> <<DrumsStanza(drum_parts)>>,
              locals |-> [num_bars |-> num_bars,
                          counts |-> [bd \in Bands |-> hit_counts(hits[bd], num_bars, b)],
                          patterns |-> pats]]

----------------------------------------------------------------------------
(* StrudelGenerator._generate_bass / _generate_melody *)

Take(s, n) == SubSeq(s, 1, Min(n, Len(s)))

\* `n['time'] < bar_duration * 2`
InFirstTwoBars(n, b) == n.time * b < 2 * BarScaled

\* `for note in note_names: if note != last_note: append`
RECURSIVE CollapseLoop(_, _, _)
CollapseLoop(out, names, i) ==
    IF i > Len(names) THEN out
    ELSE IF out = <<>> \/ names[i] # out[Len(out)]
         THEN CollapseLoop(Append(out, names[i]), names, i + 1)
         ELSE CollapseLoop(out, names, i + 1)

RemoveConsecutiveDuplicates(names) == CollapseLoop(<<>>, names, 1)

\* FirstBarNotes without the first-two-bars filter.
FirstBarNotes_NoFilter(slice, b) == Take(slice, 8)

\* FirstBarNotes without the `if not first_bar_notes` fallback.
FirstBarNotes_NoFallback(slice, b) == SelectSeq(slice, LAMBDA n : InFirstTwoBars(n, b))

\* The notes whose names make the pattern: those of the first two bars, or,
\* when there is none, the first 8 of the slice.
FirstBarNotes(slice, b) ==
    LET first_bar_notes == SelectSeq(slice, LAMBDA n : InFirstTwoBars(n, b))
    IN  IF first_bar_notes = <<>> THEN Take(slice, 8) ELSE first_bar_notes

\* The body shared by _generate_bass (head = 32, keep = 4) and _generate_melody
\* (head = 64, keep = 8).
NoteStanza(kind, all_notes, b, head, keep) ==
    LET slice == Take(all_notes, head)
    IN  IF slice = <<>> THEN [raised |-> FALSE, section |-> <<>>]
        ELSE IF b = 0 THEN [raised |-> TRUE, section |-> <<>>]
        ELSE LET picked == Take(FirstBarNotes(slice, b), 8)
                 note_names == [i \in 1 .. Len(picked) |-> picked[i].note]
                 unique_notes == RemoveConsecutiveDuplicates(note_names)
             IN  IF unique_notes = <<>> THEN [raised |-> FALSE, section |-> <<>>]
                 ELSE [raised |-> FALSE,
                       section |-> <<[kind |-> kind, notes |-> Take(unique_notes, keep)]>>]

\* _generate_bass keeping 8 unique notes, as _generate_melody does.
_generate_bass_Keep8(all_notes, b) == NoteStanza("bass", all_notes, b, 32, 8)

_generate_bass(all_notes, b) == NoteStanza("bass", all_notes, b, 32, 4)

_generate_melody(all_notes, b) == NoteStanza("melody", all_notes, b, 64, 8)

----------------------------------------------------------------------------
(* AudioAnalyzer: the analysis stages.  What librosa returns is the         *)
(* environment's choice; what the code does with it is modelled here.       *)

\* analyze_tempo taking the last element of a multi-valued tempo.
analyze_tempo_Last(bt) ==
    LET tempo == IF bt.array
                 THEN (IF Len(bt.vals) > 0 THEN bt.vals[Len(bt.vals)] ELSE 2 * 120)
                 ELSE bt.vals[1]
    IN  PyRound(tempo, 2)

\* analyze_tempo: bt is what beat_track returned for the tempo, a scalar
\* ([array |-> FALSE, vals |-> <<t>>]) or an ndarray of any length; tempi are
\* in half beats per minute, so that round() has ties to settle.  The result
\* is self.bpm.
analyze_tempo(bt) ==
    LET tempo == IF bt.array
                 THEN (IF Len(bt.vals) > 0 THEN bt.vals[1] ELSE 2 * 120)
                 ELSE bt.vals[1]
    IN  PyRound(tempo, 2)

\* ArgMax returning the last index holding the maximum.
ArgMax_Last(chroma_mean) ==
    CHOOSE i \in 0 .. 11 :
        /\ \A j \in 0 .. 11 : chroma_mean[j] <= chroma_mean[i]
        /\ \A j \in (i + 1) .. 11 : chroma_mean[j] < chroma_mean[i]

\* int(np.argmax(chroma_mean)): the first index holding the maximum.
ArgMax(chroma_mean) ==
    CHOOSE i \in 0 .. 11 :
        /\ \A j \in 0 .. 11 : chroma_mean[j] <= chroma_mean[i]
        /\ \A j \in 0 .. (i - 1) : chroma_mean[j] < chroma_mean[i]

\* analyze_key resolving equal thirds to minor.
analyze_key_TiesMinor(chroma_mean) ==
    LET root_idx == ArgMax(chroma_mean)
        major_third_idx == (root_idx + 4) % 12
        minor_third_idx == (root_idx + 3) % 12
        is_minor == chroma_mean[minor_third_idx] >= chroma_mean[major_third_idx]
    IN  <<NOTE_NAMES[root_idx + 1], IF is_minor THEN "minor" ELSE "major">>

\* analyze_key: <<root_note, mode>>.
analyze_key(chroma_mean) ==
    LET root_idx == ArgMax(chroma_mean)
        major_third_idx == (root_idx + 4) % 12
        minor_third_idx == (root_idx + 3) % 12
        is_minor == chroma_mean[minor_third_idx] > chroma_mean[major_third_idx]
    IN  <<NOTE_NAMES[root_idx + 1], IF is_minor THEN "minor" ELSE "major">>

\* librosa.hz_to_midi on the octaves of A (440 * 2^k Hz): 69 + 12 k.
RECURSIVE hz_to_midi(_)
hz_to_midi(hz) ==
    IF hz = 440 THEN 69
    ELSE IF hz < 440 THEN hz_to_midi(2 * hz) - 12
    ELSE hz_to_midi(hz \div 2) + 12

\* The frame loop of analyze_bass: a frame [time, pitch, mag] is kept when
\* pitch > 0.
BassAccepts(fr) == fr.pitch > 0

\* The frame loop of analyze_melody: kept when pitch > 0 and mag is above the
\* median of the positive magnitudes (floor).
MelodyAccepts(fr, floor) == fr.pitch > 0 /\ fr.mag > floor

DetectedNote(fr) == [time |-> fr.time, midi |-> hz_to_midi(fr.pitch), freq |-> fr.pitch]

\* The accepted frames as notes, in frame order.
NotesOf(kept) == [i \in 1 .. Len(kept) |-> DetectedNote(kept[i])]

\* DetectBass without the `if pitch > 0` test (an unvoiced frame becomes midi 0).
DetectBass_KeepAll(frames) ==
    [i \in 1 .. Len(frames) |->
        [time |-> frames[i].time,
         midi |-> IF frames[i].pitch > 0 THEN hz_to_midi(frames[i].pitch) ELSE 0,
         freq |-> frames[i].pitch]]

\* bass_notes before quantization: the loop `for t in range(...)`.
DetectBass(frames) == NotesOf(SelectSeq(frames, BassAccepts))

\* melody_notes before quantization.
DetectMelody(frames, floor) ==
    NotesOf(SelectSeq(frames, LAMBDA fr : MelodyAccepts(fr, floor)))

----------------------------------------------------------------------------
(* StrudelGenerator.__init__ and generate *)

\* getattr(analyzer, name, default)
GetAttr(present, value, default) == IF present THEN value ELSE default

\* NewGenerator ignoring the analyzer: always the defaults.
NewGenerator_Defaults(has, b, k, m) == [bpm |-> 120, key |-> "C", mode |-> "minor"]

\* StrudelGenerator.__init__: bpm, key and mode are copied (or defaulted) once.
NewGenerator(has, b, k, m) ==
    [bpm |-> GetAttr("bpm" \in has, b, 120),
     key |-> GetAttr("key" \in has, k, "C"),
     mode |-> GetAttr("mode" \in has, m, "minor")]

\* f"{duration:.1f}": the duration rounded to tenths of a second.
FormatTenths(dur) == PyRound(10 * dur, TicksPerSecond)

_generate_header(g, dur) ==
    [kind |-> "header", key |-> g.key, mode |-> g.mode, bpm |-> g.bpm,
     duration |-> FormatTenths(dur)]

_generate_settings(g) == [kind |-> "settings", bpm |-> g.bpm]

\* generate() reading bpm, key and mode from the analyzer again when it runs.
generate_Refresh(g, has, dur, hits, bass, melody) ==
    LET now == NewGenerator(has, bpm, key, mode)
        drums == IF "drum_hits" \in has THEN _generate_drums(hits, dur, now.bpm)
                 ELSE [raised |-> FALSE, section |-> <<>>, locals |-> NoLocals]
        bassr == IF "bass_notes" \in has /\ bass # <<>> THEN _generate_bass(bass, now.bpm)
                 ELSE [raised |-> FALSE, section |-> <<>>]
        melr  == IF "melody_notes" \in has /\ melody # <<>>
                 THEN _generate_melody(melody, now.bpm)
                 ELSE [raised |-> FALSE, section |-> <<>>]
        raised == drums.raised \/ bassr.raised \/ melr.raised
    IN  [raised |-> raised,
         locals |-> drums.locals,
         sections |-> IF raised THEN <<>>
                      ELSE <<_generate_header(now, dur), _generate_settings(now)>>
                           \o drums.section \o bassr.section \o melr.section]

\* generate() appending the drums stanza before the header and the settings.
generate_DrumsFirst(g, has, dur, hits, bass, melody) ==
    LET drums == IF "drum_hits" \in has THEN _generate_drums(hits, dur, g.bpm)
                 ELSE [raised |-> FALSE, section |-> <<>>, locals |-> NoLocals]
        bassr == IF "bass_notes" \in has /\ bass # <<>> THEN _generate_bass(bass, g.bpm)
                 ELSE [raised |-> FALSE, section |-> <<>>]
        melr  == IF "melody_notes" \in has /\ melody # <<>>
                 THEN _generate_melody(melody, g.bpm)
                 ELSE [raised |-> FALSE, section |-> <<>>]
        raised == drums.raised \/ bassr.raised \/ melr.raised
    IN  [raised |-> raised,
         locals |-> drums.locals,
         sections |-> IF raised THEN <<>>
                      ELSE drums.section
                           \o <<_generate_header(g, dur), _generate_settings(g)>>
                           \o bassr.section \o melr.section]

\* generate(): the sections in order, or raised when a stanza generator raises.
generate(g, has, dur, hits, bass, melody) ==
    LET drums == IF "drum_hits" \in has THEN _generate_drums(hits, dur, g.bpm)
                 ELSE [raised |-> FALSE, section |-> <<>>, locals |-> NoLocals]
        bassr == IF "bass_notes" \in has /\ bass # <<>> THEN _generate_bass(bass, g.bpm)
                 ELSE [raised |-> FALSE, section |-> <<>>]
        melr  == IF "melody_notes" \in has /\ melody # <<>>
                 THEN _generate_melody(melody, g.bpm)
                 ELSE [raised |-> FALSE, section |-> <<>>]
        raised == drums.raised \/ bassr.raised \/ melr.raised
    IN  [raised |-> raised,
         locals |-> drums.locals,
         sections |-> IF raised THEN <<>>
                      ELSE <<_generate_header(g, dur), _generate_settings(g)>>
                           \o drums.section \o bassr.section \o melr.section]

----------------------------------------------------------------------------
(* Bounded inputs *)

\* Longest list of pitch frames a stage of the pipeline is given.
MaxFrames == 2

\* All sequences over S of length at most n.
SeqsUpTo(S, n) == UNION {[1 .. k -> S] : k \in 0 .. n}

\* Time-ordered sequences of records with a time field.
TimeOrdered(s) == \A i \in 1 .. (Len(s) - 1) : s[i].time <= s[i + 1].time

\* Strictly increasing sequences of hit times.
Increasing(s) == \A i \in 1 .. (Len(s) - 1) : s[i] < s[i + 1]

Urls == {"", "v1"}

\* Signal length in ticks: 1.5 s (no whole bar at 120 bpm, one at 240 bpm).
PipeDurations == {24}

\* What beat_track may return, tempi in half bpm: 0, 0.5, 119.5, 120 and 240 bpm.
PipeTempi == {0, 1, 239, 240, 480}
BeatTrackerReturns ==
    {[array |-> a, vals |-> <<t>>] : a \in BOOLEAN, t \in PipeTempi}
    \cup {[array |-> TRUE, vals |-> <<>>]}

\* A 12-bin chroma profile with energy 2 at bin r, a at its minor third and
\* c at its major third.
Chroma(r, a, c) ==
    [i \in 0 .. 11 |-> IF i = r THEN 2
                       ELSE IF i = (r + 3) % 12 THEN a
                       ELSE IF i = (r + 4) % 12 THEN c
                       ELSE 0]
PipeChromas == {[i \in 0 .. 11 |-> 0], Chroma(9, 1, 0)}

\* Per band, the hits peak picking found.
PipeHits == {<<>>, <<0>>}

\* Pitch frames: unvoiced (0 Hz) or an octave of A, at 1/16 s.
PipeFrames ==
    {fs \in SeqsUpTo([time : {1}, pitch : {0, 110, 220}, mag : {1}], MaxFrames) :
        TimeOrdered(fs)}
MelodyFloors == {0, 1}

----------------------------------------------------------------------------
(* One invocation of the pipeline: convert() (and main(), which runs the    *)
(* same steps in the same order).                                           *)

NoResponse == [status |-> 0, error |-> "", code |-> <<>>, analysis |-> <<>>]
ErrorResponse(status, text) ==
    [status |-> status, error |-> text, code |-> <<>>, analysis |-> <<>>]

\* No analyzer, generator or response yet.
PipeBlank ==
    /\ signal = "none"
    /\ duration = 0
    /\ attrs = {}
    /\ bpm = 0
    /\ key = ""
    /\ mode = ""
    /\ drum_hits = [bd \in Bands |-> <<>>]
    /\ bass_notes = <<>>
    /\ melody_notes = <<>>
    /\ gen = [bpm |-> 0, key |-> "", mode |-> ""]
    /\ locals = NoLocals
    /\ code = <<>>
    /\ response = NoResponse

PipeInit == pc = "start" /\ url \in Urls /\ PipeBlank

QuantIdle == notes = <<>> /\ quantized = <<>> /\ requantized = <<>>
ConcIdle == reqs = <<>> /\ files = <<>>
StageIdle ==
    stage_chroma = <<>> /\ stage_frames = <<>> /\ stage_floor = 0 /\ stage_tempo = <<>>

\* Raise starting the invocation over from the download instead of ending it.
Raise_Retry(e) ==
    /\ pc' = "download"
    /\ response' = response

\* `except Exception as e: return jsonify({'error': str(e)}), 500`
Raise(e) ==
    /\ pc' = "done"
    /\ response' = ErrorResponse(500, e)

\* `if not url: return jsonify({'error': 'No URL provided'}), 400`
CheckUrl ==
    /\ pc = "start"
    /\ IF url = ""
       THEN pc' = "done" /\ response' = ErrorResponse(400, "No URL provided")
       ELSE pc' = "download" /\ UNCHANGED response
    /\ UNCHANGED <<url, signal, duration, attrs, bpm, key, mode, drum_hits, bass_notes,
                   melody_notes, gen, locals, code>>
    /\ UNCHANGED <<quantVars, concVars, stageVars>>

\* downloader.download(url): it returns the path or yt-dlp raises.
Download ==
    /\ pc = "download"
    /\ \E ok \in BOOLEAN :
          IF ok THEN pc' = "load" /\ UNCHANGED response ELSE Raise("DownloadError")
    /\ UNCHANGED <<url, signal, duration, attrs, bpm, key, mode, drum_hits, bass_notes,
                   melody_notes, gen, locals, code>>
    /\ UNCHANGED <<quantVars, concVars, stageVars>>

\* AudioAnalyzer.__init__: librosa.load raises on an unreadable file, else the
\* samples are kept as they are: nothing looks at whether they are empty or silent.
Load ==
    /\ pc = "load"
    /\ \/ Raise("LoadError") /\ UNCHANGED <<signal, duration>>
       \/ /\ signal' = "empty" /\ duration' = 0
          /\ pc' = "tempo" /\ UNCHANGED response
       \/ /\ signal' \in {"silent", "valid"} /\ duration' \in PipeDurations
          /\ pc' = "tempo" /\ UNCHANGED response
    /\ UNCHANGED <<url, attrs, bpm, key, mode, drum_hits, bass_notes,
                   melody_notes, gen, locals, code>>
    /\ UNCHANGED <<quantVars, concVars, stageVars>>

\* analyzer.analyze_tempo().  On an empty sample array librosa may raise.
AnalyzeTempo ==
    /\ pc = "tempo"
    /\ \/ /\ signal = "empty" /\ Raise("ParameterError")
          /\ UNCHANGED <<attrs, bpm>>
       \/ /\ \E bt \in BeatTrackerReturns : bpm' = analyze_tempo(bt)
          /\ attrs' = attrs \cup {"bpm", "beat_times"}
          /\ pc' = "key" /\ UNCHANGED response
    /\ UNCHANGED <<url, signal, duration, key, mode, drum_hits, bass_notes,
                   melody_notes, gen, locals, code>>
    /\ UNCHANGED <<quantVars, concVars, stageVars>>

\* analyzer.analyze_key()
AnalyzeKey ==
    /\ pc = "key"
    /\ \E chroma_mean \in PipeChromas :
          /\ key' = analyze_key(chroma_mean)[1]
          /\ mode' = analyze_key(chroma_mean)[2]
    /\ attrs' = attrs \cup {"key", "mode"}
    /\ pc' = "drums"
    /\ UNCHANGED <<url, signal, duration, bpm, drum_hits, bass_notes,
                   melody_notes, gen, locals, code, response>>
    /\ UNCHANGED <<quantVars, concVars, stageVars>>

\* analyzer.analyze_drums()
AnalyzeDrums ==
    /\ pc = "drums"
    /\ drum_hits' \in [Bands -> PipeHits]
    /\ attrs' = attrs \cup {"drum_hits"}
    /\ pc' = "bass"
    /\ UNCHANGED <<url, signal, duration, bpm, key, mode, bass_notes,
                   melody_notes, gen, locals, code, response>>
    /\ UNCHANGED <<quantVars, concVars, stageVars>>

\* analyzer.analyze_bass()
AnalyzeBass ==
    /\ pc = "bass"
    /\ \E frames \in PipeFrames : bass_notes' = _quantize_notes(DetectBass(frames))
    /\ attrs' = attrs \cup {"bass_notes"}
    /\ pc' = "melody"
    /\ UNCHANGED <<url, signal, duration, bpm, key, mode, drum_hits,
                   melody_notes, gen, locals, code, response>>
    /\ UNCHANGED <<quantVars, concVars, stageVars>>

\* analyzer.analyze_melody()
AnalyzeMelody ==
    /\ pc = "melody"
    /\ \E frames \in PipeFrames, floor \in MelodyFloors :
          melody_notes' = _quantize_notes(DetectMelody(frames, floor))
    /\ attrs' = attrs \cup {"melody_notes"}
    /\ pc' = "construct"
    /\ UNCHANGED <<url, signal, duration, bpm, key, mode, drum_hits,
                   bass_notes, gen, locals, code, response>>
    /\ UNCHANGED <<quantVars, concVars, stageVars>>

\* generator = StrudelGenerator(analyzer)
Construct ==
    /\ pc = "construct"
    /\ gen' = NewGenerator(attrs, bpm, key, mode)
    /\ pc' = "generate"
    /\ UNCHANGED <<url, signal, duration, attrs, bpm, key, mode, drum_hits, bass_notes,
                   melody_notes, locals, code, response>>
    /\ UNCHANGED <<quantVars, concVars, stageVars>>

\* Generate consuming the bass notes it has rendered.
Generate_Draining ==
    /\ pc = "generate"
    /\ LET r == generate(gen, attrs, duration, drum_hits, bass_notes, melody_notes)
       IN  IF r.raised
           THEN Raise("ZeroDivisionError") /\ UNCHANGED <<code, locals>>
           ELSE /\ code' = r.sections
                /\ locals' = r.locals
                /\ pc' = "respond" /\ UNCHANGED response
    /\ bass_notes' = <<>>
    /\ UNCHANGED <<url, signal, duration, attrs, bpm, key, mode, drum_hits,
                   melody_notes, gen>>
    /\ UNCHANGED <<quantVars, concVars, stageVars>>

\* code = generator.generate()
Generate ==
    /\ pc = "generate"
    /\ LET r == generate(gen, attrs, duration, drum_hits, bass_notes, melody_notes)
       IN  IF r.raised
           THEN Raise("ZeroDivisionError") /\ UNCHANGED <<code, locals>>
           ELSE /\ code' = r.sections
                /\ locals' = r.locals
                /\ pc' = "respond" /\ UNCHANGED response
    /\ UNCHANGED <<url, signal, duration, attrs, bpm, key, mode, drum_hits, bass_notes,
                   melody_notes, gen>>
    /\ UNCHANGED <<quantVars, concVars, stageVars>>

\* The cleanup (os.remove, errors ignored) and `return jsonify({...})`.
Respond ==
    /\ pc = "respond"
    /\ response' = [status |-> 200, error |-> "", code |-> code,
                    analysis |-> <<bpm, key, mode>>]
    /\ pc' = "done"
    /\ UNCHANGED <<url, signal, duration, attrs, bpm, key, mode, drum_hits, bass_notes,
                   melody_notes, gen, locals, code>>
    /\ UNCHANGED <<quantVars, concVars, stageVars>>

Next ==
    \/ CheckUrl
    \/ Download
    \/ Load
    \/ AnalyzeTempo
    \/ AnalyzeKey
    \/ AnalyzeDrums
    \/ AnalyzeBass
    \/ AnalyzeMelody
    \/ Construct
    \/ Generate
    \/ Respond

Init == PipeInit /\ QuantIdle /\ ConcIdle /\ StageIdle

Spec == Init /\ [][Next]_vars

----------------------------------------------------------------------------
(* Claims about one invocation (specification Spec) *)

AnalysisDone == {"bpm", "key", "mode", "drum_hits", "bass_notes", "melody_notes"} \subseteq attrs

\* C1: for every valid (non-empty) signal, whatever the beat tracker returns,
\* the bpm analyze_tempo stores is > 0 (so the bar duration 4 * 60 / bpm is
\* defined).
C1_BpmPositive == (signal = "valid" /\ "bpm" \in attrs) => bpm > 0

\* C7: when the loaded signal is empty or silent the invocation aborts before
\* analyze_tempo runs: no analysis stage completes, no program text is emitted,
\* and the invocation ends with the error surfaced to the caller.
C7_InputErrorAbortsBeforeTempo ==
    signal \in {"empty", "silent"} =>
        /\ pc \in {"tempo", "done"}
        /\ "bpm" \notin attrs
        /\ code = <<>>
        /\ (pc = "done" => response.status = 500)

\* Some stage yielded zero events: a drum band without onsets, no bass notes
\* or no melody notes.
Degenerate ==
    \/ \E bd \in Bands : drum_hits[bd] = <<>>
    \/ bass_notes = <<>>
    \/ melody_notes = <<>>

\* generate() was called and raised.
GenerateRaised == AnalysisDone /\ pc = "done" /\ response.status = 500

\* C8: for every analysis outcome of a valid signal in which a stage yields
\* zero events, generate() returns a program without raising.
C8_DegenerateNeverRaises ==
    (signal = "valid" /\ AnalysisDone /\ Degenerate) => ~GenerateRaised

\* The place of a voice stanza in the fixed order drums, bass, melody.
VoiceRank(kind) == CASE kind = "drums" -> 1 [] kind = "bass" -> 2 [] kind = "melody" -> 3

\* C16: the emitted program starts with the header stanza, followed by exactly
\* one tempo statement setcpm(bpm); the voice stanzas follow in the order drums,
\* bass, melody, each at most once; nothing precedes the header or the tempo
\* statement.
C16_SectionOrder ==
    code # <<>> =>
        /\ Len(code) >= 2
        /\ code[1].kind = "header"
        /\ code[2].kind = "settings" /\ code[2].bpm = gen.bpm
        /\ \A i \in 3 .. Len(code) : code[i].kind \in {"drums", "bass", "melody"}
        /\ \A i, j \in 3 .. Len(code) :
              i < j => VoiceRank(code[i].kind) < VoiceRank(code[j].kind)

\* A program with all five sections was emitted and returned.
C16_Witness ==
    /\ pc = "done"
    /\ response.status = 200
    /\ Len(response.code) = 5
    /\ response.code = code

StageOrder(p) ==
    CASE p = "start" -> 0 [] p = "download" -> 1 [] p = "load" -> 2
      [] p = "tempo" -> 3 [] p = "key" -> 4 [] p = "drums" -> 5
      [] p = "bass" -> 6 [] p = "melody" -> 7 [] p = "construct" -> 8
      [] p = "generate" -> 9 [] p = "respond" -> 10 [] p = "done" -> 11

\* The analyzer attributes the stage at position p produces.
StageAttrs(p) ==
    CASE p = "tempo" -> {"bpm", "beat_times"}
      [] p = "key" -> {"key", "mode"}
      [] p = "drums" -> {"drum_hits"}
      [] p = "bass" -> {"bass_notes"}
      [] p = "melody" -> {"melody_notes"}
      [] OTHER -> {}

\* C25: an invocation is straight-line: every step moves to the next position
\* of the order tempo, key, drums, bass, melody, emission, or ends the
\* invocation; each stage produces its own results once; emission happens only
\* after all five analysis stages; a step that raises ends the invocation, so
\* it is neither retried nor followed by a later stage.
C25_StraightLine ==
    [][/\ \/ StageOrder(pc') = StageOrder(pc) + 1
          \/ pc' = "done" /\ pc # "done"
       /\ attrs \subseteq attrs'
       /\ attrs' # attrs => (attrs' \ attrs = StageAttrs(pc) /\ attrs \cap StageAttrs(pc) = {})
       /\ code' # code => (pc = "generate" /\ AnalysisDone /\ code = <<>>)
       /\ response' # response => pc' = "done"]_vars

\* generate() raised after the five stages had run: the invocation ended there
\* with the error and without a program.
C25_Witness ==
    /\ pc = "done"
    /\ response.status = 500
    /\ response.error = "ZeroDivisionError"
    /\ AnalysisDone
    /\ code = <<>>

----------------------------------------------------------------------------
(* The quantizer on its own (specification SpecQuant): _quantize_notes is   *)
(* applied to a time-ordered note list, then to its own output.             *)

MaxQuantNotes == 3
MaxQuantTime == 5
QuantMidis == {60, 62, 64}

\* midi 60,60,62,62,64 with each repeated pair on one grid point (0, 0.25, 0.5 s).
ExampleNotes ==
    <<[time |-> 0, midi |-> 60], [time |-> 1, midi |-> 60], [time |-> 3, midi |-> 62],
      [time |-> 4, midi |-> 62], [time |-> 8, midi |-> 64]>>

QuantInputs ==
    {ns \in SeqsUpTo([time : 0 .. MaxQuantTime, midi : QuantMidis], MaxQuantNotes) :
        TimeOrdered(ns)}
    \cup {ExampleNotes}

QuantInit ==
    /\ pc = "quantize" /\ url = "" /\ PipeBlank /\ ConcIdle /\ StageIdle
    /\ notes \in QuantInputs
    /\ quantized = <<>>
    /\ requantized = <<>>

\* self._quantize_notes(notes)
Quantize ==
    /\ pc = "quantize"
    /\ quantized' = _quantize_notes(notes)
    /\ pc' = "requantize"
    /\ UNCHANGED <<url, signal, duration, attrs, bpm, key, mode, drum_hits, bass_notes,
                   melody_notes, gen, locals, code, response, notes, requantized, concVars, stageVars>>

\* self._quantize_notes(quantized): the output's 'time' and 'midi' are read again.
Requantize ==
    /\ pc = "requantize"
    /\ requantized' = _quantize_notes(quantized)
    /\ pc' = "requantized"
    /\ UNCHANGED <<url, signal, duration, attrs, bpm, key, mode, drum_hits, bass_notes,
                   melody_notes, gen, locals, code, response, notes, quantized, concVars, stageVars>>

QuantNext ==
    \/ Quantize
    \/ Requantize

SpecQuant == QuantInit /\ [][QuantNext]_vars

\* C5: _quantize_notes is idempotent: quantizing its output again returns
\* exactly the same sequence (length, grid times, midi values and names).
C5_QuantizeIdempotent == pc = "requantized" => requantized = quantized

\* A run where the first pass both moved a note onto the grid and dropped a
\* duplicate, and the second pass has been made.
C5_Witness ==
    /\ pc = "requantized"
    /\ Len(quantized) >= 2
    /\ Len(quantized) < Len(notes)
    /\ \E i \in 1 .. Len(notes) : notes[i].time % Resolution # 0

GridTime(t) == PyRound(t, Resolution) * Resolution
SamePair(a, b) == GridTime(a.time) = GridTime(b.time) /\ a.midi = b.midi

\* C6: a note is emitted exactly when its (grid_time, midi) differs from that of
\* the immediately preceding emitted note (the first note always is), so no two
\* adjacent output notes share (grid_time, midi), and midi 60,60,62,62,64 at
\* matching grid times yields exactly 60,62,64.
C6_EmitsOnChange ==
    pc # "quantize" =>
        /\ \A i \in 1 .. Len(notes) :
              LET before == _quantize_notes(SubSeq(notes, 1, i - 1))
                  upto == _quantize_notes(SubSeq(notes, 1, i))
                  emitted == [time |-> GridTime(notes[i].time), midi |-> notes[i].midi,
                              note |-> _midi_to_note(notes[i].midi)]
              IN  IF before = <<>> \/ ~SamePair(before[Len(before)], notes[i])
                  THEN upto = Append(before, emitted)
                  ELSE upto = before
        /\ \A j \in 1 .. (Len(quantized) - 1) : ~SamePair(quantized[j], quantized[j + 1])
        /\ notes = ExampleNotes =>
              [j \in 1 .. Len(quantized) |-> quantized[j].midi] = <<60, 62, 64>>

\* The example list has been quantized to three notes.
C6_Witness == pc # "quantize" /\ notes = ExampleNotes /\ Len(quantized) = 3

\* C28: for note times that are non-decreasing, the grid times _quantize_notes
\* outputs are non-decreasing, each is an integer multiple of the one
\* resolution (0.125 s), and each lies within half a resolution step of the
\* time of a source note of the same midi.
C28_GridTimesOrdered ==
    (pc # "quantize" /\ TimeOrdered(notes)) =>
        /\ \A j \in 1 .. (Len(quantized) - 1) : quantized[j].time <= quantized[j + 1].time
        /\ \A j \in 1 .. Len(quantized) : quantized[j].time % Resolution = 0
        /\ \A j \in 1 .. Len(quantized) :
              \E i \in 1 .. Len(notes) :
                  /\ notes[i].midi = quantized[j].midi
                  /\ 2 * (quantized[j].time - notes[i].time) <= Resolution
                  /\ 2 * (notes[i].time - quantized[j].time) <= Resolution

\* Notes all off the grid were quantized to grid times that increase, one of
\* them rounded up and one rounded down.
C28_Witness ==
    /\ pc # "quantize"
    /\ Len(notes) >= 2
    /\ \A i \in 1 .. Len(notes) : notes[i].time % Resolution # 0
    /\ Len(quantized) = Len(notes)
    /\ quantized[1].time < notes[1].time
    /\ quantized[Len(quantized)].time > notes[Len(notes)].time
    /\ quantized[1].time < quantized[Len(quantized)].time

----------------------------------------------------------------------------
(* The drums stanza on its own (specification SpecDrums): generate() is     *)
(* called on an analyzer whose stages have run, for a range of tempi,       *)
(* durations and drum hits.                                                 *)

\* Signal lengths: whole seconds up to this many.
MaxSeconds == 8
\* Hit trains: first hit at tick 0 .. MaxStart, at most MaxTrain hits.
MaxStart == 3
MaxTrain == 12

DrumDurations == {TicksPerSecond * k : k \in 0 .. MaxSeconds}

\* Tempi in half bpm: 0, 60, 120 and 240 bpm.
DrumTempi == {0, 120, 240, 480}

\* Peak picking keeps hits more than 4 frames (93 ms) apart: strides of 2 and 3
\* ticks, and of one bar at 240 and at 120 bpm.
Strides == {2, 3, 16, 32}

Train(start, stride, n) == [i \in 1 .. n |-> start + (i - 1) * stride]

HitTrains == {Train(st, sd, n) : st \in 0 .. MaxStart, sd \in Strides, n \in 0 .. MaxTrain}

FewHits == {<<>>, <<0>>}

\* One band has a train of hits, the other two have none or one.
DrumHitInputs ==
    UNION {{[bd \in Bands |-> IF bd = focus THEN tr ELSE few[bd]] :
               tr \in HitTrains, few \in [Bands \ {focus} -> FewHits]} :
           focus \in Bands}

AllAttrs == {"bpm", "beat_times", "key", "mode", "drum_hits", "bass_notes", "melody_notes"}

DrumsInit ==
    /\ pc = "generate"
    /\ url = "v1"
    /\ signal = "valid"
    /\ duration \in DrumDurations
    /\ attrs = AllAttrs
    /\ \E t \in DrumTempi : bpm = analyze_tempo([array |-> TRUE, vals |-> <<t>>])
    /\ key = "C"
    /\ mode = "major"
    /\ drum_hits \in DrumHitInputs
    /\ bass_notes = <<>>
    /\ melody_notes = <<>>
    /\ gen = NewGenerator(attrs, bpm, key, mode)
    /\ locals = NoLocals
    /\ code = <<>>
    /\ response = NoResponse
    /\ QuantIdle /\ ConcIdle /\ StageIdle

DrumsNext ==
    \/ Generate
    \/ Respond

SpecDrums == DrumsInit /\ [][DrumsNext]_vars

\* generate() has returned a program.
Generated == pc \in {"respond", "done"} /\ code # <<>>

\* The drums stanza of the emitted program.
DrumsOf(sections) == SelectSeq(sections, LAMBDA sec : sec.kind = "drums")

CeilHalf(n) == (n + 1) \div 2

\* C2: in the bar-pattern fold, for every number of observed bars N (here
\* N >= 1: with N = 0 no hit is counted at all) and every vector of per-slot
\* counts, a slot is marked 'x' if and only if its count is >= ceil(N/2).
C2_HitIffCeilHalf ==
    (Generated /\ locals.num_bars >= 1) =>
        \A bd \in Bands, sl \in Slots :
            locals.patterns[bd][sl] = "x" <=> locals.counts[bd][sl] >= CeilHalf(locals.num_bars)

\* The bars (of the first num_bars) in which band bd has a hit mapping to slot sl.
BarsHitting(bd, sl) ==
    {bar \in 0 .. (locals.num_bars - 1) :
        \E i \in 1 .. Len(drum_hits[bd]) :
            /\ HitCounted(drum_hits[bd][i], locals.num_bars, gen.bpm)
            /\ BarNum(drum_hits[bd][i], gen.bpm) = bar
            /\ HitStep(drum_hits[bd][i], gen.bpm) = sl}

\* C4: for each band and slot, the fold's count equals the number of distinct
\* observed bars holding at least one hit that maps to the slot; in particular
\* no count exceeds N.
C4_CountIsDistinctBars ==
    Generated =>
        \A bd \in Bands, sl \in Slots :
            /\ locals.counts[bd][sl] = Cardinality(BarsHitting(bd, sl))
            /\ locals.counts[bd][sl] <= locals.num_bars

NoHitIn(bd) == CountX(locals.patterns[bd]) = 0

FallbackEmitted ==
    /\ Len(DrumsOf(code)) = 1
    /\ DrumsOf(code)[1].fallback
    /\ DrumsOf(code)[1].parts = <<>>

\* C3 as written: whenever the kick and snare patterns have no hit and the
\* hihat pattern has fewer than 8 of its 16 slots hit, the drums stanza is the
\* fallback steady kick line.
C3_FallbackBelowEightHihat ==
    (Generated /\ NoHitIn("kick") /\ NoHitIn("snare") /\ CountX(locals.patterns["hihat"]) < 8)
        => FallbackEmitted

\* C3, amended: whenever the kick, snare and hihat patterns all have no hit,
\* the drums stanza is the fallback steady kick line (one stanza, no stack).
C3_FallbackWhenNoHit ==
    (Generated /\ NoHitIn("kick") /\ NoHitIn("snare") /\ NoHitIn("hihat"))
        => FallbackEmitted

\* The fallback was emitted for a signal of at least one bar in which a band
\* had onsets, none of them counted into a pattern.
C3_Witness ==
    /\ Generated /\ NoHitIn("kick") /\ NoHitIn("snare") /\ NoHitIn("hihat")
    /\ locals.num_bars >= 1
    /\ \E bd \in Bands : drum_hits[bd] # <<>>
    /\ FallbackEmitted

\* C12: with N = 4 observed bars, a slot that receives a hit in exactly 2 of
\* the 4 bars is marked 'x', and a slot that receives a hit in only 1 bar is
\* marked '~'.
C12_MajorityOfFourBars ==
    (Generated /\ locals.num_bars = 4) =>
        \A bd \in Bands, sl \in Slots :
            /\ Cardinality(BarsHitting(bd, sl)) = 2 => locals.patterns[bd][sl] = "x"
            /\ Cardinality(BarsHitting(bd, sl)) = 1 => locals.patterns[bd][sl] = "~"

\* bpm = 120, 8 s of signal and kick hits at 0, 1, ..., 7 s.
KickScenario ==
    /\ gen.bpm = 120
    /\ duration = 8 * TicksPerSecond
    /\ drum_hits["kick"] = Train(0, TicksPerSecond, 8)

\* The parts of the drums stanza for one band.
PartsOf(bd) ==
    IF DrumsOf(code) = <<>> THEN <<>>
    ELSE SelectSeq(DrumsOf(code)[1].parts, LAMBDA part : part.band = bd)

\* C13: with bpm = 120, a duration of exactly 4 bars (8 s) and kick hits on
\* beats 0 and 2 of every bar, the kick pattern has slots 0 and 8 marked 'x' and
\* the 14 others '~', and it is rendered as the four beat tokens x ~ x ~.
C13_KickOnBeatsZeroAndTwo ==
    (Generated /\ KickScenario) =>
        /\ locals.num_bars = 4
        /\ \A sl \in Slots : locals.patterns["kick"][sl] = "x" <=> sl \in {0, 8}
        /\ \A sl \in Slots : locals.patterns["kick"][sl] \in {"x", "~"}
        /\ Len(PartsOf("kick")) = 1
        /\ PartsOf("kick")[1].form = "struct"
        /\ PartsOf("kick")[1].struct = <<"x", "~", "x", "~">>

\* The scenario's program has been generated.
C13_Witness == Generated /\ KickScenario /\ CountX(locals.patterns["kick"]) = 2

\* The bands whose pattern has at least one hit, in the order of the stack.
BandsWithHit == SelectSeq(<<"kick", "snare", "hihat">>, LAMBDA bd : ~NoHitIn(bd))

\* C14: whenever drum analysis has run, the emitted program has exactly one
\* drums stanza; it is the fallback steady kick line iff the kick, snare and
\* hihat patterns are all without a hit, and otherwise one stack of exactly the
\* bands that have a hit; never none, never both.
C14_OneDrumsStanza ==
    (Generated /\ "drum_hits" \in attrs) =>
        /\ Len(DrumsOf(code)) = 1
        /\ DrumsOf(code)[1].fallback <=> BandsWithHit = <<>>
        /\ DrumsOf(code)[1].fallback => DrumsOf(code)[1].parts = <<>>
        /\ ~DrumsOf(code)[1].fallback =>
              [i \in 1 .. Len(DrumsOf(code)[1].parts) |-> DrumsOf(code)[1].parts[i].band]
                  = BandsWithHit

\* A stack of two bands was emitted, the hihat (rendered literally) being one,
\* while the snare had no hit.
C14_Witness ==
    /\ Generated
    /\ Len(DrumsOf(code)) = 1
    /\ Len(DrumsOf(code)[1].parts) = 2
    /\ NoHitIn("snare")
    /\ CountX(locals.patterns["hihat"]) \in 1 .. 7

\* C15: with h the number of 'x' in the 16-slot hihat pattern, the hihat part
\* is the c6*8 shorthand when h >= 12, the c6*4 shorthand when 8 <= h <= 11,
\* a literal struct of the beat-grouped tokens when 1 <= h <= 7, and absent
\* when h = 0.
C15_HihatRendering ==
    Generated =>
        LET h == CountX(locals.patterns["hihat"])
            hp == PartsOf("hihat")
        IN  /\ h >= 12 => Len(hp) = 1 /\ hp[1].form = "c6*8"
            /\ (8 <= h /\ h <= 11) => Len(hp) = 1 /\ hp[1].form = "c6*4"
            /\ (1 <= h /\ h <= 7) =>
                  /\ Len(hp) = 1 /\ hp[1].form = "struct"
                  /\ hp[1].struct = simplify_pattern(locals.patterns["hihat"])
            /\ h = 0 => hp = <<>>

\* A hihat pattern with 8 to 11 hit slots was rendered with the c6*4 shorthand.
C15_Witness ==
    /\ Generated
    /\ CountX(locals.patterns["hihat"]) \in 8 .. 11
    /\ Len(PartsOf("hihat")) = 1
    /\ PartsOf("hihat")[1].form = "c6*4"

\* C23: every bar pattern the fold produces has exactly 16 slots, each 'x' or
\* '~', and its beat-grouped rendering has exactly 4 beat tokens, for every
\* number of observed bars N in 0 .. 4 and every list of hits (none included).
C23_SixteenSlotsFourTokens ==
    Generated =>
        /\ locals.num_bars \in 0 .. 4
        /\ \A bd \in Bands :
              /\ DOMAIN locals.patterns[bd] = 0 .. 15
              /\ \A sl \in 0 .. 15 : locals.patterns[bd][sl] \in {"x", "~"}
              /\ Len(simplify_pattern(locals.patterns[bd])) = 4
              /\ \A i \in 1 .. Len(PartsOf(bd)) :
                    PartsOf(bd)[i].form = "struct" => Len(PartsOf(bd)[i].struct) = 4

\* Four bars were observed, one band's rendering has a bracketed group next to
\* rests, and another band has no hit at all.
C23_Witness ==
    /\ Generated
    /\ locals.num_bars = 4
    /\ \E bd \in Bands :
          /\ Len(PartsOf(bd)) = 1
          /\ PartsOf(bd)[1].form = "struct"
          /\ \E i, j \in 1 .. 4 :
                PartsOf(bd)[1].struct[i] = "[x x]" /\ PartsOf(bd)[1].struct[j] = "~"
    /\ \E bd \in Bands : drum_hits[bd] = <<>>

\* The number of hit slots among the 4 slots of a beat (1 .. 4) of a pattern.
BeatCount(pattern, beat) ==
    Cardinality({j \in 0 .. 3 : pattern[4 * (beat - 1) + j] = "x"})

\* C26: simplify_pattern renders each beat from the number k of hit slots among
\* its 4 slots only: '~' for 0, 'x' for 1, a bracketed group of k 'x' for
\* k >= 2; so two patterns with equal per-beat counts render identically,
\* wherever in the beat the hits are.
C26_TokenFromBeatCount ==
    Generated =>
        /\ \A bd \in Bands, beat \in 1 .. 4 :
              LET k == BeatCount(locals.patterns[bd], beat)
                  tok == simplify_pattern(locals.patterns[bd])[beat]
              IN  /\ k = 0 => tok = "~"
                  /\ k = 1 => tok = "x"
                  /\ k = 2 => tok = "[x x]"
                  /\ k = 3 => tok = "[x x x]"
                  /\ k = 4 => tok = "[x x x x]"
        /\ \A b1, b2 \in Bands :
              (\A beat \in 1 .. 4 : BeatCount(locals.patterns[b1], beat)
                                        = BeatCount(locals.patterns[b2], beat))
                  => simplify_pattern(locals.patterns[b1]) = simplify_pattern(locals.patterns[b2])

\* Two bands have different patterns with equal per-beat counts, not all zero,
\* and both were rendered.
C26_Witness ==
    /\ Generated
    /\ \E b1, b2 \in Bands :
          /\ locals.patterns[b1] # locals.patterns[b2]
          /\ \A beat \in 1 .. 4 : BeatCount(locals.patterns[b1], beat)
                                      = BeatCount(locals.patterns[b2], beat)
          /\ CountX(locals.patterns[b1]) >= 1
          /\ Len(PartsOf(b1)) = 1 /\ Len(PartsOf(b2)) = 1
          /\ PartsOf(b1)[1].struct = PartsOf(b2)[1].struct

\* The position of a hit in its bar, rounded to a step: 0 .. 16.
RoundedPosition(hit_time) == PyRound((hit_time * gen.bpm) % BarScaled, StepScaled)

\* The hits of band bd that lie before the end of the observed bars.
EarlyHits(bd) ==
    {i \in 1 .. Len(drum_hits[bd]) :
        drum_hits[bd][i] * gen.bpm < locals.num_bars * BarScaled}

\* C27: each counted hit increments exactly one slot counter, the slot being
\* round((time mod bar_duration) / (bar_duration / 16)) mod 16, and leaves the
\* other 15 alone; a hit whose position rounds to 16 is counted at slot 0.
C27_OneSlotPerHit ==
    Generated =>
        \A bd \in Bands :
            /\ \A i \in EarlyHits(bd) : RoundedPosition(drum_hits[bd][i]) \in 0 .. 16
            /\ \A sl \in Slots :
                  locals.counts[bd][sl] =
                      Cardinality({i \in EarlyHits(bd) :
                          \/ RoundedPosition(drum_hits[bd][i]) = sl
                          \/ RoundedPosition(drum_hits[bd][i]) = 16 /\ sl = 0})

\* A counted hit in the last half-slot of its bar went to slot 0.
C27_Witness ==
    /\ Generated
    /\ \E bd \in Bands :
          /\ \E i \in EarlyHits(bd) : RoundedPosition(drum_hits[bd][i]) = 16
          /\ locals.counts[bd][0] >= 1
          /\ locals.counts[bd][15] = 0

\* The hit times of band bd before the end of the observed bars, in order.
EarlyHitTimes(bd) ==
    SelectSeq(drum_hits[bd], LAMBDA t : t * gen.bpm < locals.num_bars * BarScaled)

\* C30: with N = min(4, floor(duration / bar_duration)), hits at or after
\* N * bar_duration never change a band's pattern (it is the pattern of the
\* earlier hits alone); when N = 0 every pattern is all rest and the drums
\* stanza is the fallback kick line, whatever hits were detected.
C30_LateHitsIgnored ==
    Generated =>
        /\ locals.num_bars = Min(4, (duration * gen.bpm) \div BarScaled)
        /\ \A bd \in Bands :
              locals.patterns[bd] = hits_to_pattern(EarlyHitTimes(bd), locals.num_bars, gen.bpm)
        /\ \A bd \in Bands :
              EarlyHitTimes(bd) = <<>> => \A sl \in Slots : locals.patterns[bd][sl] = "~"
        /\ locals.num_bars = 0 =>
              /\ \A bd \in Bands, sl \in Slots : locals.patterns[bd][sl] = "~"
              /\ FallbackEmitted

\* The signal was shorter than one bar, a band had several hits, and the
\* fallback was emitted.
C30_Witness ==
    /\ Generated
    /\ locals.num_bars = 0
    /\ duration > 0
    /\ \E bd \in Bands : Len(drum_hits[bd]) >= 2
    /\ FallbackEmitted

----------------------------------------------------------------------------
(* The bass and melody stanzas on their own (specification SpecNotes):      *)
(* generate() is called on an analyzer whose stages have run, for a range   *)
(* of tempi and of quantized note lists.                                    *)

\* Note trains: at most MaxNoteTrain detected notes, cycling through at most
\* MaxPeriod pitches.
MaxNoteTrain == 10
MaxPeriod == 3

\* Tempi in half bpm: 0, 120 and 240 bpm (two bars are 4 s and 2 s).
NoteTempi == {0, 240, 480}
\* First note at 0 s, 3/16 s, 1.9 s or 4.4 s; notes 0, 1, 2 or 4 ticks apart.
NoteStarts == {0, 3, 30, 70}
NoteStrides == {0, 1, 2, 4}

\* The notes detected in n consecutive accepted frames.
NoteTrain(start, stride, n, period) ==
    [i \in 1 .. n |-> [time |-> start + (i - 1) * stride, midi |-> 57 + ((i - 1) % period)]]

NoteTrains ==
    {NoteTrain(st, sd, n, p) :
        st \in NoteStarts, sd \in NoteStrides, n \in 0 .. MaxNoteTrain, p \in 1 .. MaxPeriod}

FewNotes == {<<>>, <<[time |-> 0, midi |-> 45]>>}

NotesInit ==
    /\ pc = "generate"
    /\ url = "v1"
    /\ signal = "valid"
    /\ duration = 8 * TicksPerSecond
    /\ attrs = AllAttrs
    /\ \E t \in NoteTempi : bpm = analyze_tempo([array |-> TRUE, vals |-> <<t>>])
    /\ key = "C"
    /\ mode = "major"
    /\ drum_hits = [bd \in Bands |-> <<>>]
    /\ \E tr \in NoteTrains, few \in FewNotes :
          \/ bass_notes = _quantize_notes(tr) /\ melody_notes = _quantize_notes(few)
          \/ bass_notes = _quantize_notes(few) /\ melody_notes = _quantize_notes(tr)
    /\ gen = NewGenerator(attrs, bpm, key, mode)
    /\ locals = NoLocals
    /\ code = <<>>
    /\ response = NoResponse
    /\ QuantIdle /\ ConcIdle /\ StageIdle

NotesNext ==
    \/ Generate
    \/ Respond

SpecNotes == NotesInit /\ [][NotesNext]_vars

\* The note tokens of the stanza of the given kind ("bass" or "melody").
TokensOf(sections, kind) ==
    LET st == SelectSeq(sections, LAMBDA sec : sec.kind = kind)
    IN  IF st = <<>> THEN {} ELSE {st[1].notes[i] : i \in 1 .. Len(st[1].notes)}

\* tok is the name of a note of ns lying in the first two bars.
NamesFirstTwoBars(tok, ns) ==
    \E i \in 1 .. Len(ns) : ns[i].note = tok /\ ns[i].time * gen.bpm < 2 * BarScaled

\* C9 as written: every note token of the bass (resp. melody) stanza is the
\* name of a quantized bass (resp. melody) note with grid_time < 2 * bar_duration.
C9_TokensFromFirstTwoBars ==
    Generated =>
        /\ \A tok \in TokensOf(code, "bass") : NamesFirstTwoBars(tok, bass_notes)
        /\ \A tok \in TokensOf(code, "melody") : NamesFirstTwoBars(tok, melody_notes)

\* Some note among the first `head` of ns lies in the first two bars.
AnyInFirstTwoBars(ns, head) ==
    \E i \in 1 .. Min(head, Len(ns)) : ns[i].time * gen.bpm < 2 * BarScaled

TokensFromFirstTwoBarsOrFirstEight(kind, ns, head) ==
    \A tok \in TokensOf(code, kind) :
        IF AnyInFirstTwoBars(ns, head)
        THEN NamesFirstTwoBars(tok, ns)
        ELSE \E i \in 1 .. Min(8, Len(ns)) : ns[i].note = tok

\* C9, amended: every note token of the bass (resp. melody) stanza is the name
\* of a quantized note with grid_time < 2 * bar_duration, or, when none of the
\* first 32 (resp. 64) quantized notes lies in the first two bars, the name of
\* one of the first 8 quantized notes.
C9_TokensFromFirstTwoBarsOrFirstEight ==
    Generated =>
        /\ TokensFromFirstTwoBarsOrFirstEight("bass", bass_notes, 32)
        /\ TokensFromFirstTwoBarsOrFirstEight("melody", melody_notes, 64)

\* A bass stanza of several tokens was emitted from notes of which some lie in
\* the first two bars and some after them.
C9_Witness ==
    /\ Generated
    /\ Cardinality(TokensOf(code, "bass")) >= 2
    /\ AnyInFirstTwoBars(bass_notes, 32)
    /\ \E i \in 1 .. Len(bass_notes) : bass_notes[i].time * gen.bpm >= 2 * BarScaled

\* The stanzas of the given kind in the emitted program.
StanzasOf(sections, kind) == SelectSeq(sections, LAMBDA sec : sec.kind = kind)

\* The number of note tokens in the pattern of the stanza of the given kind.
TokenCount(sections, kind) ==
    IF StanzasOf(sections, kind) = <<>> THEN 0 ELSE Len(StanzasOf(sections, kind)[1].notes)

\* C11: whatever the length and content of the quantized note lists, the bass
\* stanza's pattern has at most 4 note tokens and the melody stanza's at most 8.
C11_AtMostFourAndEight ==
    Generated =>
        /\ TokenCount(code, "bass") <= 4
        /\ TokenCount(code, "melody") <= 8

\* A bass stanza of 4 tokens was emitted from a list whose first five notes lie
\* in the first two bars and change name at every step (five candidates).
C11_Witness ==
    /\ Generated
    /\ TokenCount(code, "bass") = 4
    /\ Len(bass_notes) >= 5
    /\ \A i \in 1 .. 5 : bass_notes[i].time * gen.bpm < 2 * BarScaled
    /\ \A i \in 1 .. 4 : bass_notes[i].note # bass_notes[i + 1].note

StanzaIffNotes(kind, ns) ==
    /\ ns = <<>> => StanzasOf(code, kind) = <<>>
    /\ ns # <<>> => Len(StanzasOf(code, kind)) = 1 /\ TokenCount(code, kind) >= 1

\* C17: the bass (resp. melody) stanza is absent when the quantized bass
\* (resp. melody) list is empty and present with at least one note token when
\* it is not; no section of the program is an empty text or a stanza without
\* tokens.
C17_StanzaIffNotes ==
    Generated =>
        /\ StanzaIffNotes("bass", bass_notes)
        /\ StanzaIffNotes("melody", melody_notes)
        /\ \A i \in 1 .. Len(code) :
              code[i].kind \in {"bass", "melody"} => code[i].notes # <<>>

\* No bass stanza for an empty bass list, next to a melody stanza made from
\* notes that all lie beyond the first two bars.
C17_Witness ==
    /\ Generated
    /\ bass_notes = <<>>
    /\ StanzasOf(code, "bass") = <<>>
    /\ melody_notes # <<>>
    /\ ~AnyInFirstTwoBars(melody_notes, 64)
    /\ TokenCount(code, "melody") >= 1

----------------------------------------------------------------------------
(* Concurrent /convert requests (specification SpecConc).  app.run() serves *)
(* each request on its own thread; YouTubeDownloader() writes to            *)
(* tempfile.gettempdir()/<video id>.wav, so requests for one video share a  *)
(* path.  The analysis of a video's audio is a function of the audio.       *)

MaxRequests == 2
Requests == 1 .. MaxRequests
Videos == {"v1", "v2"}
ConcUrls == {""} \cup Videos

\* Videos on whose audio the pipeline raises (a track without beats: bpm = 0).
VideosRaising == {"v2"}

\* os.path.join(self.output_dir, f"{video_id}.wav"): one path per video id.
AudioPath(video) == video

Answer(status, text) == [status |-> status, error |-> text]

ConcInit ==
    /\ pc = "serving" /\ url = "" /\ PipeBlank /\ QuantIdle /\ StageIdle
    /\ reqs \in [Requests -> [pc : {"start"}, url : ConcUrls, response : {Answer(0, "")}]]
    /\ files = [v \in Videos |-> "absent"]

\* `if not url: return jsonify({'error': 'No URL provided'}), 400`
ConcCheckUrl(r) ==
    /\ reqs[r].pc = "start"
    /\ reqs' = [reqs EXCEPT ![r] =
                   IF @.url = ""
                   THEN [@ EXCEPT !.pc = "done", !.response = Answer(400, "No URL provided")]
                   ELSE [@ EXCEPT !.pc = "download"]]
    /\ UNCHANGED <<files, pipeVars, quantVars, stageVars>>

\* downloader.download(url): yt-dlp writes <id>.wav (replacing one that is
\* there) and returns its path, or raises.
ConcDownload(r) ==
    /\ reqs[r].pc = "download"
    /\ \/ /\ files' = [files EXCEPT ![AudioPath(reqs[r].url)] = reqs[r].url]
          /\ reqs' = [reqs EXCEPT ![r].pc = "load"]
       \/ /\ reqs' = [reqs EXCEPT ![r].pc = "done",
                                  ![r].response = Answer(500, "DownloadError")]
          /\ UNCHANGED files
    /\ UNCHANGED <<pipeVars, quantVars, stageVars>>

\* AudioAnalyzer(audio_path, ...): librosa.load reads the whole file, or raises
\* when there is no file at the path.
ConcLoad(r) ==
    /\ reqs[r].pc = "load"
    /\ reqs' = [reqs EXCEPT ![r] =
                   IF files[AudioPath(@.url)] = "absent"
                   THEN [@ EXCEPT !.pc = "done", !.response = Answer(500, "FileNotFoundError")]
                   ELSE [@ EXCEPT !.pc = "analyze"]]
    /\ UNCHANGED <<files, pipeVars, quantVars, stageVars>>

\* The five analysis stages and generate(), on the samples in memory.
ConcAnalyze(r) ==
    /\ reqs[r].pc = "analyze"
    /\ reqs' = [reqs EXCEPT ![r] =
                   IF @.url \in VideosRaising
                   THEN [@ EXCEPT !.pc = "done", !.response = Answer(500, "ZeroDivisionError")]
                   ELSE [@ EXCEPT !.pc = "cleanup"]]
    /\ UNCHANGED <<files, pipeVars, quantVars, stageVars>>

\* `try: os.remove(audio_path) except: pass`, then the success response.
ConcCleanup(r) ==
    /\ reqs[r].pc = "cleanup"
    /\ files' = [files EXCEPT ![AudioPath(reqs[r].url)] = "absent"]
    /\ reqs' = [reqs EXCEPT ![r].pc = "done", ![r].response = Answer(200, "")]
    /\ UNCHANGED <<pipeVars, quantVars, stageVars>>

ConcNext ==
    \/ \E r \in Requests : ConcCheckUrl(r)
    \/ \E r \in Requests : ConcDownload(r)
    \/ \E r \in Requests : ConcLoad(r)
    \/ \E r \in Requests : ConcAnalyze(r)
    \/ \E r \in Requests : ConcCleanup(r)

SpecConc == ConcInit /\ [][ConcNext]_vars

\* The answers a request for u can get when it is the only request.
AloneAnswers(u) ==
    IF u = "" THEN {Answer(400, "No URL provided")}
    ELSE {Answer(500, "DownloadError"),
          IF u \in VideosRaising THEN Answer(500, "ZeroDivisionError") ELSE Answer(200, "")}

\* C10: for any interleaving of two /convert requests (two for the same video
\* included), a request that has downloaded its audio finds the file in place,
\* holding its video, until it has loaded it (no other request deletes or
\* replaces it), and each response is one the request would get running alone.
C10_RequestsIsolated ==
    \A r \in Requests :
        /\ reqs[r].pc = "load" => files[AudioPath(reqs[r].url)] = reqs[r].url
        /\ reqs[r].pc = "done" => reqs[r].response \in AloneAnswers(reqs[r].url)

----------------------------------------------------------------------------
(* analyze_key on its own (specification SpecKey): the stage is run on a    *)
(* range of 12-bin chroma profiles.                                         *)

\* Largest mean energy of a chroma bin.
MaxEnergy == 2

\* Profiles with energy at a bin r, at the bins 3, 4 and 7 semitones above it,
\* and nowhere else (the all-zero profile included).
KeyChromas ==
    {[i \in 0 .. 11 |-> IF i = r THEN top
                        ELSE IF i = (r + 3) % 12 THEN a
                        ELSE IF i = (r + 4) % 12 THEN c
                        ELSE IF i = (r + 7) % 12 THEN d
                        ELSE 0] :
        r \in 0 .. 11, top \in 0 .. MaxEnergy, a \in 0 .. MaxEnergy,
        c \in 0 .. MaxEnergy, d \in 0 .. MaxEnergy}

KeyInit ==
    /\ pc = "key" /\ url = "" /\ PipeBlank /\ QuantIdle /\ ConcIdle
    /\ stage_chroma \in KeyChromas
    /\ stage_frames = <<>>
    /\ stage_floor = 0
    /\ stage_tempo = <<>>

\* analyzer.analyze_key() on the profile chroma_mean = stage_chroma.
KeyStage ==
    /\ pc = "key"
    /\ key' = analyze_key(stage_chroma)[1]
    /\ mode' = analyze_key(stage_chroma)[2]
    /\ attrs' = attrs \cup {"key", "mode"}
    /\ pc' = "drums"
    /\ UNCHANGED <<url, signal, duration, bpm, drum_hits, bass_notes,
                   melody_notes, gen, locals, code, response>>
    /\ UNCHANGED <<quantVars, concVars, stageVars>>

KeyNext == KeyStage

SpecKey == KeyInit /\ [][KeyNext]_vars

\* C19: for every chroma profile, with r the root analyze_key chose, mode is
\* minor iff the mean energy at bin (r+3) mod 12 is strictly greater than at
\* bin (r+4) mod 12, and major otherwise (equal energies give major); mode is
\* always major or minor.
C19_MinorIffMinorThirdStronger ==
    pc = "drums" =>
        /\ mode \in {"major", "minor"}
        /\ \A r \in 0 .. 11 :
              key = NOTE_NAMES[r + 1] =>
                  (mode = "minor" <=>
                      stage_chroma[(r + 3) % 12] > stage_chroma[(r + 4) % 12])

\* The two thirds above the root hold equal, non-zero energy and the mode is
\* major.
C19_Witness ==
    /\ pc = "drums"
    /\ mode = "major"
    /\ \E r \in 0 .. 11 :
          /\ key = NOTE_NAMES[r + 1]
          /\ stage_chroma[(r + 3) % 12] = stage_chroma[(r + 4) % 12]
          /\ stage_chroma[(r + 3) % 12] > 0

\* C20: for every chroma profile, the root is the pitch-class name of the bin
\* with maximum mean energy, the lowest index winning ties; for the all-zero
\* profile it is 'C'.
C20_RootIsFirstMaximum ==
    pc = "drums" =>
        /\ \E i \in 0 .. 11 :
              /\ key = NOTE_NAMES[i + 1]
              /\ \A j \in 0 .. 11 : stage_chroma[j] <= stage_chroma[i]
              /\ \A j \in 0 .. 11 : j < i => stage_chroma[j] < stage_chroma[i]
        /\ (\A j \in 0 .. 11 : stage_chroma[j] = 0) => key = "C"

\* Two bins share the maximum, which is not zero, and the root is the lower one.
C20_Witness ==
    /\ pc = "drums"
    /\ \E i, k \in 0 .. 11 :
          /\ i < k
          /\ stage_chroma[i] = stage_chroma[k]
          /\ stage_chroma[i] > 0
          /\ \A j \in 0 .. 11 : stage_chroma[j] <= stage_chroma[i]
          /\ key = NOTE_NAMES[i + 1]

----------------------------------------------------------------------------
(* The frame loops of analyze_bass and analyze_melody on their own          *)
(* (specification SpecDetect): the loop is run on a range of piptrack       *)
(* frames and its notes are handed to _quantize_notes.                      *)

\* Longest list of piptrack frames.
MaxDetectFrames == 3

\* Per frame: its time (ticks), its strongest pitch (0 Hz when unvoiced, else
\* an octave of A) and that pitch's magnitude.
DetectFrames ==
    {fs \in SeqsUpTo([time : 0 .. 2, pitch : {0, 110, 440}, mag : {1, 2}], MaxDetectFrames) :
        TimeOrdered(fs)}

DetectInit ==
    /\ pc = "detect" /\ url = "" /\ PipeBlank /\ QuantIdle /\ ConcIdle
    /\ stage_chroma = <<>>
    /\ stage_frames \in DetectFrames
    /\ stage_floor \in MelodyFloors
    /\ stage_tempo = <<>>

\* The loop of analyze_bass, up to the call of _quantize_notes.
BassLoop ==
    /\ pc = "detect"
    /\ notes' = DetectBass(stage_frames)
    /\ pc' = "quantize"
    /\ UNCHANGED <<url, signal, duration, attrs, bpm, key, mode, drum_hits, bass_notes,
                   melody_notes, gen, locals, code, response, quantized, requantized,
                   concVars, stageVars>>

\* The loop of analyze_melody, up to the call of _quantize_notes.
MelodyLoop ==
    /\ pc = "detect"
    /\ notes' = DetectMelody(stage_frames, stage_floor)
    /\ pc' = "quantize"
    /\ UNCHANGED <<url, signal, duration, attrs, bpm, key, mode, drum_hits, bass_notes,
                   melody_notes, gen, locals, code, response, quantized, requantized,
                   concVars, stageVars>>

DetectNext ==
    \/ BassLoop
    \/ MelodyLoop
    \/ Quantize
    \/ Requantize

SpecDetect == DetectInit /\ [][DetectNext]_vars

\* C18: every note analyze_bass or analyze_melody passes to _quantize_notes has
\* frequency > 0 and comes from a frame whose strongest pitch is > 0, and every
\* quantized note comes from such a note: none is derived from a frame with
\* pitch <= 0.
C18_PositivePitchOnly ==
    pc # "detect" =>
        /\ \A i \in 1 .. Len(notes) :
              /\ notes[i].freq > 0
              /\ \E j \in 1 .. Len(stage_frames) :
                    /\ stage_frames[j].pitch > 0
                    /\ stage_frames[j].pitch = notes[i].freq
                    /\ stage_frames[j].time = notes[i].time
        /\ Len(notes) <= Cardinality({j \in 1 .. Len(stage_frames) : stage_frames[j].pitch > 0})
        /\ \A k \in 1 .. Len(quantized) :
              \E i \in 1 .. Len(notes) :
                  /\ notes[i].freq > 0
                  /\ notes[i].midi = quantized[k].midi
                  /\ GridTime(notes[i].time) = quantized[k].time

\* Frames with and without a pitch were looked at, and the notes of the voiced
\* ones have been quantized.
C18_Witness ==
    /\ pc = "requantize"
    /\ \E j \in 1 .. Len(stage_frames) : stage_frames[j].pitch = 0
    /\ notes # <<>>
    /\ quantized # <<>>

----------------------------------------------------------------------------
(* analyze_tempo on its own (specification SpecTempo): the stage is run on  *)
(* a range of values beat_track may return, an ndarray of several tempi     *)
(* included.                                                                *)

\* Longest tempo array.
MaxTempoVals == 2

\* Tempi in half bpm: 0, 0.5, 1, 1.5, 119.5, 120, 120.5 and 240 bpm.
TempoValues == {0, 1, 2, 3, 239, 240, 241, 480}

TempoReturns ==
    {[array |-> FALSE, vals |-> <<t>>] : t \in TempoValues}
    \cup {[array |-> TRUE, vals |-> vs] : vs \in SeqsUpTo(TempoValues, MaxTempoVals)}

TempoInit ==
    /\ pc = "tempo" /\ url = "" /\ PipeBlank /\ QuantIdle /\ ConcIdle
    /\ stage_chroma = <<>>
    /\ stage_frames = <<>>
    /\ stage_floor = 0
    /\ stage_tempo \in TempoReturns

\* analyzer.analyze_tempo() when beat_track returned stage_tempo.
TempoStage ==
    /\ pc = "tempo"
    /\ bpm' = analyze_tempo(stage_tempo)
    /\ attrs' = attrs \cup {"bpm", "beat_times"}
    /\ pc' = "key"
    /\ UNCHANGED <<url, signal, duration, key, mode, drum_hits, bass_notes,
                   melody_notes, gen, locals, code, response>>
    /\ UNCHANGED <<quantVars, concVars, stageVars>>

TempoNext == TempoStage

SpecTempo == TempoInit /\ [][TempoNext]_vars

\* C21: analyze_tempo sets bpm to the estimator's value rounded to the nearest
\* integer, using the first element of a multi-valued result, and to 120 when
\* the estimator produced no value; no case is reported as an error.
C21_TempoFirstValueOrDefault ==
    pc = "key" =>
        /\ "bpm" \in attrs
        /\ response = NoResponse
        /\ stage_tempo.vals = <<>> => bpm = 120
        /\ stage_tempo.vals # <<>> =>
              /\ 2 * bpm - stage_tempo.vals[1] <= 1
              /\ stage_tempo.vals[1] - 2 * bpm <= 1

\* The estimator returned two tempi that round differently and bpm is the
\* first one's rounding.
C21_Witness ==
    /\ pc = "key"
    /\ stage_tempo.array
    /\ Len(stage_tempo.vals) = 2
    /\ stage_tempo.vals[1] = 239
    /\ stage_tempo.vals[2] = 480
    /\ bpm = 120

----------------------------------------------------------------------------
(* generate() called twice on one generator (specification SpecAgain).      *)

AgainInit ==
    /\ pc = "generate"
    /\ url = "v1"
    /\ signal = "valid"
    /\ duration = 8 * TicksPerSecond
    /\ attrs = AllAttrs
    /\ \E t \in NoteTempi : bpm = analyze_tempo([array |-> TRUE, vals |-> <<t>>])
    /\ key = "C"
    /\ mode = "major"
    /\ \E hits \in PipeHits : drum_hits = [bd \in Bands |-> hits]
    /\ \E tr \in NoteTrains, few \in FewNotes :
          \/ bass_notes = _quantize_notes(tr) /\ melody_notes = _quantize_notes(few)
          \/ bass_notes = _quantize_notes(few) /\ melody_notes = _quantize_notes(tr)
    /\ gen = NewGenerator(attrs, bpm, key, mode)
    /\ locals = NoLocals
    /\ code = <<>>
    /\ response = NoResponse
    /\ QuantIdle /\ ConcIdle /\ StageIdle

\* A second generator.generate() on the same generator and analyzer.
Regenerate ==
    /\ pc = "respond"
    /\ LET r == generate(gen, attrs, duration, drum_hits, bass_notes, melody_notes)
       IN  IF r.raised
           THEN Raise("ZeroDivisionError") /\ UNCHANGED <<code, locals>>
           ELSE /\ code' = r.sections
                /\ locals' = r.locals
                /\ pc' = "regenerated" /\ UNCHANGED response
    /\ UNCHANGED <<url, signal, duration, attrs, bpm, key, mode, drum_hits, bass_notes,
                   melody_notes, gen>>
    /\ UNCHANGED <<quantVars, concVars, stageVars>>

AgainNext ==
    \/ Generate
    \/ Regenerate
    \/ Respond

SpecAgain == AgainInit /\ [][AgainNext]_vars

\* The analyzer fields generate() reads.
AnalyzerFields == <<bpm, key, mode, duration, attrs, drum_hits, bass_notes, melody_notes>>

----------------------------------------------------------------------------
(* The classes used outside convert() and main() (specification SpecLate):  *)
(* on a loaded analyzer the five analysis stages, the construction of the   *)
(* generator and generate() are called in any order, each stage at most     *)
(* once and generate() after the construction.                              *)

\* Tempi beat_track returns here, in half bpm: 0 and 240 bpm.
LateTempi == {0, 480}

LateInit ==
    /\ pc = "construct"
    /\ url = "v1"
    /\ signal = "valid"
    /\ duration = 4 * TicksPerSecond
    /\ attrs = {}
    /\ bpm = 0
    /\ key = ""
    /\ mode = ""
    /\ drum_hits = [bd \in Bands |-> <<>>]
    /\ bass_notes = <<>>
    /\ melody_notes = <<>>
    /\ gen = [bpm |-> 0, key |-> "", mode |-> ""]
    /\ locals = NoLocals
    /\ code = <<>>
    /\ response = NoResponse
    /\ QuantIdle /\ ConcIdle /\ StageIdle

\* generate() has not been called yet.
BeforeGenerate == pc \in {"construct", "generate"}

\* analyzer.analyze_tempo(), before or after the generator was constructed.
TempoAnyTime ==
    /\ BeforeGenerate /\ "bpm" \notin attrs
    /\ \E t \in LateTempi : bpm' = analyze_tempo([array |-> TRUE, vals |-> <<t>>])
    /\ attrs' = attrs \cup {"bpm", "beat_times"}
    /\ UNCHANGED <<pc, url, signal, duration, key, mode, drum_hits, bass_notes,
                   melody_notes, gen, locals, code, response>>
    /\ UNCHANGED <<quantVars, concVars, stageVars>>

\* analyzer.analyze_key(), before or after the generator was constructed.
KeyAnyTime ==
    /\ BeforeGenerate /\ "key" \notin attrs
    /\ \E chroma_mean \in PipeChromas :
          /\ key' = analyze_key(chroma_mean)[1]
          /\ mode' = analyze_key(chroma_mean)[2]
    /\ attrs' = attrs \cup {"key", "mode"}
    /\ UNCHANGED <<pc, url, signal, duration, bpm, drum_hits, bass_notes,
                   melody_notes, gen, locals, code, response>>
    /\ UNCHANGED <<quantVars, concVars, stageVars>>

\* analyzer.analyze_drums(), before or after the generator was constructed.
DrumsAnyTime ==
    /\ BeforeGenerate /\ "drum_hits" \notin attrs
    /\ \E hits \in PipeHits : drum_hits' = [bd \in Bands |-> hits]
    /\ attrs' = attrs \cup {"drum_hits"}
    /\ UNCHANGED <<pc, url, signal, duration, bpm, key, mode, bass_notes,
                   melody_notes, gen, locals, code, response>>
    /\ UNCHANGED <<quantVars, concVars, stageVars>>

\* analyzer.analyze_bass(), before or after the generator was constructed.
BassAnyTime ==
    /\ BeforeGenerate /\ "bass_notes" \notin attrs
    /\ \E frames \in PipeFrames : bass_notes' = _quantize_notes(DetectBass(frames))
    /\ attrs' = attrs \cup {"bass_notes"}
    /\ UNCHANGED <<pc, url, signal, duration, bpm, key, mode, drum_hits,
                   melody_notes, gen, locals, code, response>>
    /\ UNCHANGED <<quantVars, concVars, stageVars>>

\* analyzer.analyze_melody(), before or after the generator was constructed.
MelodyAnyTime ==
    /\ BeforeGenerate /\ "melody_notes" \notin attrs
    /\ \E frames \in PipeFrames, floor \in MelodyFloors :
          melody_notes' = _quantize_notes(DetectMelody(frames, floor))
    /\ attrs' = attrs \cup {"melody_notes"}
    /\ UNCHANGED <<pc, url, signal, duration, bpm, key, mode, drum_hits,
                   bass_notes, gen, locals, code, response>>
    /\ UNCHANGED <<quantVars, concVars, stageVars>>

LateNext ==
    \/ TempoAnyTime
    \/ KeyAnyTime
    \/ DrumsAnyTime
    \/ BassAnyTime
    \/ MelodyAnyTime
    \/ Construct
    \/ Generate

SpecLate == LateInit /\ [][LateNext]_vars

\* The names of the notes of ns.
NoteNames(ns) == {ns[i].note : i \in 1 .. Len(ns)}

\* The program uses the generator's own bpm, key and mode, and the hits and
\* notes the analyzer holds now.
UsesCapturedAndCurrent ==
    /\ code[1].bpm = gen.bpm /\ code[1].key = gen.key /\ code[1].mode = gen.mode
    /\ code[2].bpm = gen.bpm
    /\ DrumsOf(code) # <<>> <=> "drum_hits" \in attrs
    /\ DrumsOf(code) # <<>> =>
          /\ locals.num_bars = Min(4, (duration * gen.bpm) \div BarScaled)
          /\ \A bd \in Bands :
                locals.patterns[bd] = hits_to_pattern(drum_hits[bd], locals.num_bars, gen.bpm)
    /\ StanzasOf(code, "bass") # <<>> <=> ("bass_notes" \in attrs /\ bass_notes # <<>>)
    /\ TokensOf(code, "bass") \subseteq NoteNames(bass_notes)
    /\ StanzasOf(code, "melody") # <<>> <=> ("melody_notes" \in attrs /\ melody_notes # <<>>)
    /\ TokensOf(code, "melody") \subseteq NoteNames(melody_notes)

\* C29: the generator captures bpm, key and mode once, at construction (120,
\* 'C' and 'minor' for those the analyzer does not have yet) and never
\* refreshes them, while hits and notes are read at generate() time: whatever
\* the order of the stages and the construction, the header, the setcpm line
\* and the bar duration use the construction-time values and the stanzas the
\* data the analyzer holds when generate() runs.
C29_CapturedAtConstruction ==
    /\ [](code # <<>> => UsesCapturedAndCurrent)
    /\ [][gen' # gen =>
            /\ pc = "construct"
            /\ gen'.bpm = (IF "bpm" \in attrs THEN bpm ELSE 120)
            /\ gen'.key = (IF "key" \in attrs THEN key ELSE "C")
            /\ gen'.mode = (IF "mode" \in attrs THEN mode ELSE "minor")]_vars

\* Tempo and key were analysed after the construction (the generator has the
\* defaults, the analyzer 240 bpm and A minor) and the program has the
\* defaults in its header next to drums and bass stanzas.
C29_Witness ==
    /\ code # <<>>
    /\ gen = [bpm |-> 120, key |-> "C", mode |-> "minor"]
    /\ "bpm" \in attrs /\ bpm = 240
    /\ "key" \in attrs /\ key = "A"
    /\ code[1].bpm = 120 /\ code[1].key = "C"
    /\ DrumsOf(code) # <<>>
    /\ StanzasOf(code, "bass") # <<>>

====
